---- MODULE Spec2Model ----
(***************************************************************************)
(* Crawl-and-extract engine of nodejs-news-crawler: NamuNewsCrawler        *)
(* (crawlNews, backfillDetails, crawlCategoryNews, crawlNewsDetail),       *)
(* BaseCrawler (filterNewArticles, crawlAndSaveDetailNews) and NewsService *)
(* (the Persistence Store: news_main, news_detail, news_crawl_log).        *)
(*                                                                         *)
(* A run is an async function: it is modelled as a process whose steps are *)
(* the code between two awaits.  Every call of the store and of the Page   *)
(* Fetcher is an await, and its outcome (answer or failure) is an input.   *)
(***************************************************************************)
EXTENDS Integers, Sequences, FiniteSets, TLC

\* ------------------------------------------------------------------ bounds
\* Distinct article URLs the origin can list.
NumUrls == 2
\* Configured categories (this.categories has 7 entries; the loop is the same).
NumCategories == 2

\* Store calls that fail in one behaviour.
MaxStoreFaults == 2
\* The limit of the sweep's query (BACKFILL_DETAIL_LIMIT, 30 when not set),
\* scaled down with the number of articles.
BackfillLimit == 1
\* ... and in the runs that are about the sweep itself.
SweepLimit == 2
\* Lexemes of the start and of the words of an anchor text.
MaxPrefixLen == 3
MaxBodyLen == 5
\* Anchors of a listing page.
MaxAnchors == 2

\* ------------------------------------------------------- program constants
\* const maxAttempts = 2 in crawlNewsDetail.
maxAttempts == 2
\* crawlCategoryNews: items.length >= 40 ends the first pass, items.length < 10
\* starts the second, items.length >= 50 ends it; MAX_NEWS_PER_CATEGORY || 25;
\* a title of fewer than 5 characters is left out.
PrimaryCap == 40
SecondaryThreshold == 10
SecondaryCap == 50
MAX_PER_CATEGORY == 25
MinTitleLen == 5

URLS == 1..NumUrls
Categories == 1..NumCategories
\* The calls of crawlNews of one behaviour.  Nothing keeps two of them from being
\* in progress at once (index.js: the scheduled job and the startup crawl; the
\* controller's manual trigger).
Runs == {"r1", "r2"}

\* A value that is no row, no detail, no text (null / undefined in the code).
Null == "null"
NoUrl == 0
NoDetail == [content |-> "", author |-> "", source |-> ""]
NoRow == [news_se |-> 0, content_ct |-> ""]

\* The three texts crawlNewsDetail can return as content.
ArticleText == "article text"
NoContentPlaceholder == "cannot extract detail"
CrawlErrorPlaceholder == "crawl error"
\* The name crawlNewsDetail gives when it finds no author, no source.
DefaultName == "namu news"
\* An author and a provider as a page can name them.
ReporterName == "reporter"
ProviderName == "provider"

\* ------------------------------------------------------------------ state
VARIABLES
    news_main,       \* table news_main: sequence of rows, news_se = position
    news_detail,     \* table news_detail: sequence of rows
    news_crawl_log,  \* table news_crawl_log: sequence of rows, crawl_log_se = position
    cache,           \* BaseCrawler.cache: url -> cached detail, or NoDetail
    run,             \* per call of crawlNews: its locals and its position
    faults,          \* store calls that have failed so far
    env,             \* what the environment of this behaviour does (fixed at Init)
    probe            \* a pure function under check: its input, and its value once applied

vars == <<news_main, news_detail, news_crawl_log, cache, run, faults, env, probe>>

\* ------------------------------------------------------------- sequences
Range(s) == {s[i] : i \in DOMAIN s}

\* All sequences of distinct elements of S of length at most n.
SeqsNoDup(S, n) ==
    {s \in UNION {[1..k -> S] : k \in 0..n} :
        \A i, j \in DOMAIN s : i # j => s[i] # s[j]}

\* The j-th smallest element of a set of positions.
KthOf(S, j) == CHOOSE i \in S : Cardinality({m \in S : m <= i}) = j

\* The elements of s at the positions `keep`, in order.
Pick(s, keep) == [j \in 1..Cardinality(keep) |-> s[KthOf(keep, j)]]

\* ------------------------------------------------- the Persistence Store
ExistingUrlSet == {news_main[i].url_lk : i \in DOMAIN news_main}

DetailRows(id) == {i \in DOMAIN news_detail : news_detail[i].news_se = id}

\* Outcomes of one store call in this behaviour: TRUE it answers, FALSE it fails
\* with an error that is no uniqueness violation (store unreachable).
StoreAnswers ==
    IF env.storeFaults /\ faults < MaxStoreFaults THEN BOOLEAN ELSE {TRUE}

Answered(ok) == faults' = IF ok THEN faults ELSE faults + 1

\* What a run has seen of the store since its log record was created: "up" no
\* call failed, "down" a call failed and none answered since, "flaky" otherwise.
StoreSeen(h, ok) ==
    IF h = "flaky" THEN "flaky"
    ELSE IF ~ok THEN "down"
    ELSE IF h = "down" THEN "flaky" ELSE "up"

\* saveMainNews: prisma.news_main.create (url_lk is unique); P2002 -> null,
\* any other error is thrown again.
saveMainNewsMut_NoUnique(table, url, ok) ==
    IF ~ok THEN [kind |-> "throw", row |-> [news_se |-> 0, url_lk |-> NoUrl]]
    ELSE [kind |-> "saved", row |-> [news_se |-> Len(table) + 1, url_lk |-> url]]

saveMainNewsMut_ReturnsStored(table, url, ok) ==
    IF ~ok THEN [kind |-> "throw", row |-> [news_se |-> 0, url_lk |-> NoUrl]]
    ELSE IF \E i \in DOMAIN table : table[i].url_lk = url
    THEN [kind |-> "saved",
          row |-> table[CHOOSE i \in DOMAIN table : table[i].url_lk = url]]
    ELSE [kind |-> "saved", row |-> [news_se |-> Len(table) + 1, url_lk |-> url]]

saveMainNews(table, url, ok) ==
    IF ~ok THEN [kind |-> "throw", row |-> [news_se |-> 0, url_lk |-> NoUrl]]
    ELSE IF \E i \in DOMAIN table : table[i].url_lk = url
    THEN [kind |-> "null", row |-> [news_se |-> 0, url_lk |-> NoUrl]]
    ELSE [kind |-> "saved", row |-> [news_se |-> Len(table) + 1, url_lk |-> url]]

\* saveNewsDetail, up to the answer of prisma.news_detail.create (news_se is
\* unique): the created row, "P2002" (then findUnique follows), or a throw.
saveNewsDetailCreateMut_NoUnique(table, id, detail, ok) ==
    IF ~ok THEN [kind |-> "throw", row |-> NoRow]
    ELSE [kind |-> "saved", row |-> [news_se |-> id, content_ct |-> detail.content]]

saveNewsDetailCreate(table, id, detail, ok) ==
    IF ~ok THEN [kind |-> "throw", row |-> NoRow]
    ELSE IF \E i \in DOMAIN table : table[i].news_se = id
    THEN [kind |-> "P2002", row |-> NoRow]
    ELSE [kind |-> "saved", row |-> [news_se |-> id, content_ct |-> detail.content]]

\* saveNewsDetail after P2002: findUnique({ where: { news_se } }); its failure
\* is caught and null returned.
saveNewsDetailFindMut_Null(table, id, ok) == NoRow

saveNewsDetailFind(table, id, ok) ==
    IF ok /\ \E i \in DOMAIN table : table[i].news_se = id
    THEN table[CHOOSE i \in DOMAIN table : table[i].news_se = id]
    ELSE NoRow

\* getExistingUrls: the urls among `urls` that are stored; [] when the query fails.
getExistingUrls(urls, ok) ==
    IF ok THEN {u \in urls : u \in ExistingUrlSet} ELSE {}

\* filterNewArticles, after the query: articles.filter(a => !existingUrls.includes(a.url)).
filterNewArticlesMut_Stored(articles, existingUrls) ==
    SelectSeq(articles, LAMBDA a : a.url \in existingUrls)

filterNewArticles(articles, existingUrls) ==
    SelectSeq(articles, LAMBDA a : a.url \notin existingUrls)

\* getMainNewsWithoutDetail(limit): LEFT JOIN ... WHERE d.news_se IS NULL ORDER BY
\* published_dt DESC LIMIT limit.  published_dt is not part of the state, so any
\* order of the rows is a possible answer: the set of possible answers.
MissingDetail == {i \in DOMAIN news_main : DetailRows(i) = {}}

Min(a, b) == IF a < b THEN a ELSE b

getMainNewsWithoutDetailMut_NoLimit(limit) ==
    {t \in SeqsNoDup(MissingDetail, Cardinality(MissingDetail)) :
        Len(t) = Cardinality(MissingDetail)}

getMainNewsWithoutDetail(limit) ==
    {t \in SeqsNoDup(MissingDetail, limit) :
        Len(t) = Min(limit, Cardinality(MissingDetail))}

\* ------------------------------------------------------------ one crawl run
\* The locals of crawlNews / backfillDetails of a run slot, and what the run has
\* done so far (the fields after `result` record history, the code has no such
\* fields).
IdleRun ==
    [pc |-> "idle", logId |-> 0, itemCount |-> 0, catIdx |-> 0,
     allArticles |-> <<>>, newArticles |-> <<>>, saveIdx |-> 0,
     detailTasks |-> <<>>, targets |-> <<>>, bfIdx |-> 0, bfAttempt |-> 0,
     bfDetail |-> NoDetail, result |-> [kind |-> "none", success |-> FALSE, itemCount |-> 0],
     fetchFailed |-> {}, store |-> "up", created |-> {}, queryFailed |-> FALSE,
     storedAtQuery |-> {}, updateCalls |-> 0, events |-> <<>>, calls |-> {},
     missingAtSweep |-> {}, sweepFault |-> FALSE, dups |-> 0,
     cachedGets |-> {}]

Ended(r) == run[r].pc \in {"done", "raised"}

\* The listing pages a category fetch can return, as crawlCategoryNews parses
\* them: items with distinct urls (seenUrls).
Listings == SeqsNoDup(URLS, NumUrls)

ListingResponses ==
    (IF env.listingFaults THEN {[ok |-> FALSE, urls |-> <<>>]} ELSE {})
    \cup {[ok |-> TRUE, urls |-> l] : l \in Listings}

\* crawlCategoryNews: the items of the page, [] when the fetch (or the parse) throws.
crawlCategoryNews(resp, categoryName) ==
    IF resp.ok
    THEN [i \in DOMAIN resp.urls |-> [url |-> resp.urls[i], category |-> categoryName]]
    ELSE <<>>

\* crawlNews, first statement: createCrawlLog('started'); its failure is thrown
\* to the caller before the try block is entered.
Start(r) ==
    /\ r \in env.slots
    /\ run[r].pc = "idle"
    /\ \E ok \in StoreAnswers : Answered(ok) /\
        IF ok
        THEN /\ news_crawl_log' = Append(news_crawl_log,
                    [status_cd |-> "started", message_ct |-> Null, item_va |-> -1,
                     updates |-> 0])
             /\ run' = [run EXCEPT ![r] =
                    [IdleRun EXCEPT !.pc = "catFetch",
                                    !.logId = Len(news_crawl_log) + 1,
                                    !.catIdx = 1,
                                    !.events = <<"log created">>]]
        ELSE /\ news_crawl_log' = news_crawl_log
             /\ run' = [run EXCEPT ![r] =
                    [IdleRun EXCEPT !.pc = "raised",
                                    !.result = [kind |-> "raised", success |-> FALSE,
                                                itemCount |-> 0]]]
    /\ UNCHANGED <<news_main, news_detail, cache, env, probe>>

\* The category loop, up to the answer of httpClient.get in crawlCategoryNews.
\* A failed fetch ends in the catch of crawlCategoryNews, which returns [].
CategoryFetchMut_NoDelayOnFail(r) ==
    /\ run[r].pc = "catFetch"
    /\ \E resp \in ListingResponses :
        LET categoryArticles == crawlCategoryNews(resp, run[r].catIdx)
        IN  run' = [run EXCEPT ![r] =
                [@ EXCEPT !.pc = IF resp.ok THEN "catDelay"
                                 ELSE IF run[r].catIdx < env.categories THEN "catFetch"
                                 ELSE "dedup",
                          !.catIdx = IF resp.ok THEN @ ELSE @ + 1,
                          !.allArticles = @ \o categoryArticles,
                          !.fetchFailed = IF resp.ok THEN @ ELSE @ \cup {run[r].catIdx},
                          !.events = IF run[r].catIdx = 1 THEN Append(@, "category") ELSE @]]
    /\ UNCHANGED <<news_main, news_detail, news_crawl_log, cache, faults, env, probe>>

CategoryFetchMut_Abort(r) ==
    /\ run[r].pc = "catFetch"
    /\ \E resp \in ListingResponses :
        IF resp.ok
        THEN /\ run' = [run EXCEPT ![r] =
                    [@ EXCEPT !.pc = "catDelay",
                              !.allArticles = @ \o crawlCategoryNews(resp, run[r].catIdx),
                              !.events = IF run[r].catIdx = 1 THEN Append(@, "category")
                                         ELSE @]]
             /\ news_crawl_log' = news_crawl_log
        ELSE /\ run' = [run EXCEPT ![r] =
                    [@ EXCEPT !.pc = "raised",
                              !.fetchFailed = @ \cup {run[r].catIdx},
                              !.result = [kind |-> "raised", success |-> FALSE,
                                          itemCount |-> 0]]]
             /\ news_crawl_log' = [news_crawl_log EXCEPT ![run[r].logId] =
                    [@ EXCEPT !.status_cd = "error", !.updates = @ + 1]]
    /\ UNCHANGED <<news_main, news_detail, cache, faults, env, probe>>

CategoryFetch(r) ==
    /\ run[r].pc = "catFetch"
    /\ \E resp \in ListingResponses :
        LET categoryArticles == crawlCategoryNews(resp, run[r].catIdx)
        IN  run' = [run EXCEPT ![r] =
                [@ EXCEPT !.pc = "catDelay",
                          !.allArticles = @ \o categoryArticles,
                          !.fetchFailed = IF resp.ok THEN @ ELSE @ \cup {run[r].catIdx},
                          !.events = IF run[r].catIdx = 1 THEN Append(@, "category") ELSE @]]
    /\ UNCHANGED <<news_main, news_detail, news_crawl_log, cache, faults, env, probe>>

\* await this.delay(this.requestDelayMs), then the next category or the end of the loop.
CategoryDelay(r) ==
    /\ run[r].pc = "catDelay"
    /\ run' = [run EXCEPT ![r] =
            [@ EXCEPT !.pc = IF run[r].catIdx < env.categories THEN "catFetch" ELSE "dedup",
                      !.catIdx = @ + 1]]
    /\ UNCHANGED <<news_main, news_detail, news_crawl_log, cache, faults, env, probe>>

\* const newArticles = await this.filterNewArticles(allArticles)
DedupMut_LastCategory(r) ==
    /\ run[r].pc = "dedup"
    /\ \E ok \in StoreAnswers : Answered(ok) /\
        LET urls == {run[r].allArticles[i].url :
                        i \in {j \in DOMAIN run[r].allArticles :
                                  run[r].allArticles[j].category = env.categories}}
            existingUrls == getExistingUrls(urls, ok)
        IN  run' = [run EXCEPT ![r] =
                [@ EXCEPT !.pc = "save",
                          !.newArticles = filterNewArticles(run[r].allArticles, existingUrls),
                          !.saveIdx = 1,
                          !.store = StoreSeen(@, ok),
                          !.queryFailed = ~ok,
                          !.storedAtQuery = ExistingUrlSet,
                          !.events = Append(@, "dedup")]]
    /\ UNCHANGED <<news_main, news_detail, news_crawl_log, cache, env, probe>>

Dedup(r) ==
    /\ run[r].pc = "dedup"
    /\ \E ok \in StoreAnswers : Answered(ok) /\
        LET urls == {run[r].allArticles[i].url : i \in DOMAIN run[r].allArticles}
            existingUrls == getExistingUrls(urls, ok)
        IN  run' = [run EXCEPT ![r] =
                [@ EXCEPT !.pc = "save",
                          !.newArticles = filterNewArticles(run[r].allArticles, existingUrls),
                          !.saveIdx = 1,
                          !.store = StoreSeen(@, ok),
                          !.queryFailed = ~ok,
                          !.storedAtQuery = ExistingUrlSet,
                          !.events = Append(@, "dedup")]]
    /\ UNCHANGED <<news_main, news_detail, news_crawl_log, cache, env, probe>>

\* crawlAndSaveDetailNews, its synchronous start (it is called, not awaited, in
\* the write loop): on a cache hit the cached detail goes straight to
\* saveNewsDetail; on a miss crawlNewsDetail issues its first httpClient.get.
NewDetailTaskMut_IgnoresCache(news_se, url) ==
    [news_se |-> news_se, url |-> url, pc |-> "fetch", attempt |-> 1,
     detail |-> NoDetail, failure |-> "none"]

NewDetailTaskMut_NextId(news_se, url) ==
    IF cache[url] # NoDetail
    THEN [news_se |-> news_se + 1, url |-> url, pc |-> "create", attempt |-> 0,
          detail |-> cache[url], failure |-> "none"]
    ELSE [news_se |-> news_se + 1, url |-> url, pc |-> "fetch", attempt |-> 1,
          detail |-> NoDetail, failure |-> "none"]

NewDetailTask(news_se, url) ==
    IF cache[url] # NoDetail
    THEN [news_se |-> news_se, url |-> url, pc |-> "create", attempt |-> 0,
          detail |-> cache[url], failure |-> "none"]
    ELSE [news_se |-> news_se, url |-> url, pc |-> "fetch", attempt |-> 1,
          detail |-> NoDetail, failure |-> "none"]

\* if (saved) { ...; itemCount++ }
NextItemCountMut_Always(itemCount, kind) == itemCount + 1

NextItemCount(itemCount, kind) ==
    IF kind = "saved" THEN itemCount + 1 ELSE itemCount

\* One iteration of the write loop: saveMainNews(article), and for a saved row
\* the start of its detail task.  A throw of saveMainNews is caught per item.
SaveMainMut_ReplacesDuplicate(r) ==
    /\ run[r].pc = "save"
    /\ run[r].saveIdx <= Len(run[r].newArticles)
    /\ \E ok \in StoreAnswers : Answered(ok) /\
        LET article == run[r].newArticles[run[r].saveIdx]
            res == saveMainNews(news_main, article.url, ok)
            kept == SelectSeq(news_main, LAMBDA row : row.url_lk # article.url)
        IN  /\ news_main' = IF res.kind = "saved" THEN Append(news_main, res.row)
                            ELSE IF res.kind = "null"
                            THEN Append(kept, [news_se |-> Len(news_main) + 1,
                                               url_lk |-> article.url])
                            ELSE news_main
            /\ run' = [run EXCEPT ![r] =
                [@ EXCEPT !.saveIdx = @ + 1,
                          !.detailTasks =
                              IF res.kind = "saved"
                              THEN Append(@, NewDetailTask(res.row.news_se, article.url))
                              ELSE @,
                          !.itemCount = NextItemCount(@, res.kind),
                          !.created = IF res.kind = "saved" THEN @ \cup {res.row.news_se}
                                      ELSE @,
                          !.store = StoreSeen(@, ok),
                          !.dups = IF res.kind = "null" THEN @ + 1 ELSE @,
                          !.events = IF run[r].saveIdx = 1 THEN Append(@, "write") ELSE @]]
    /\ UNCHANGED <<news_detail, news_crawl_log, cache, env, probe>>

SaveMainMut_TaskOnDuplicate(r) ==
    /\ run[r].pc = "save"
    /\ run[r].saveIdx <= Len(run[r].newArticles)
    /\ \E ok \in StoreAnswers : Answered(ok) /\
        LET article == run[r].newArticles[run[r].saveIdx]
            res == saveMainNews(news_main, article.url, ok)
        IN  /\ news_main' = IF res.kind = "saved" THEN Append(news_main, res.row)
                            ELSE news_main
            /\ run' = [run EXCEPT ![r] =
                [@ EXCEPT !.saveIdx = @ + 1,
                          !.detailTasks =
                              IF res.kind # "throw"
                              THEN Append(@, NewDetailTask(res.row.news_se, article.url))
                              ELSE @,
                          !.itemCount = NextItemCount(@, res.kind),
                          !.created = IF res.kind = "saved" THEN @ \cup {res.row.news_se}
                                      ELSE @,
                          !.store = StoreSeen(@, ok),
                          !.dups = IF res.kind = "null" THEN @ + 1 ELSE @,
                          !.events = IF run[r].saveIdx = 1 THEN Append(@, "write") ELSE @]]
    /\ UNCHANGED <<news_detail, news_crawl_log, cache, env, probe>>

SaveMain(r) ==
    /\ run[r].pc = "save"
    /\ run[r].saveIdx <= Len(run[r].newArticles)
    /\ \E ok \in StoreAnswers : Answered(ok) /\
        LET article == run[r].newArticles[run[r].saveIdx]
            res == saveMainNews(news_main, article.url, ok)
        IN  /\ news_main' = IF res.kind = "saved" THEN Append(news_main, res.row)
                            ELSE news_main
            /\ run' = [run EXCEPT ![r] =
                [@ EXCEPT !.saveIdx = @ + 1,
                          !.detailTasks =
                              IF res.kind = "saved"
                              THEN Append(@, NewDetailTask(res.row.news_se, article.url))
                              ELSE @,
                          !.itemCount = NextItemCount(@, res.kind),
                          !.created = IF res.kind = "saved" THEN @ \cup {res.row.news_se}
                                      ELSE @,
                          !.store = StoreSeen(@, ok),
                          !.dups = IF res.kind = "null" THEN @ + 1 ELSE @,
                          !.events = IF run[r].saveIdx = 1 THEN Append(@, "write") ELSE @]]
    /\ UNCHANGED <<news_detail, news_crawl_log, cache, env, probe>>

\* What httpClient.get(articleUrl) can give: a throw (timeout, network), a page
\* whose body text has at most 200 characters, a longer page.
DetailResponses ==
    {"full"} \cup (IF env.detailFaults THEN {"fail", "thin"} ELSE {})

\* What the parsing of a fetched page can give: the content, the author and the
\* provider it extracts ("" when it finds none), or a throw.
Extractions ==
    [content : {"", ArticleText}, author : {"", ReporterName},
     source : {"", ProviderName}, throws : BOOLEAN]

\* The pages of a crawl: with text or without, naming no author and no provider;
\* a page the parser throws on when the origin is faulty.
ParseOutcomes ==
    {e \in Extractions :
        /\ e.author = "" /\ e.source = ""
        /\ e.throws => (env.detailFaults /\ e.content = "")}

\* The record crawlNewsDetail returns after parsing: content || placeholder,
\* author || default, inferredSource (the default unless a provider is found).
DetailRecordMut_NoDefaults(e) ==
    [content |-> e.content, author |-> e.author, source |-> e.source]

DetailRecord(e) ==
    [content |-> IF e.content # "" THEN e.content ELSE NoContentPlaceholder,
     author |-> IF e.author # "" THEN e.author ELSE DefaultName,
     source |-> IF e.source # "" THEN e.source ELSE DefaultName]

\* The record of the catch of crawlNewsDetail.
ErrorRecord ==
    [content |-> CrawlErrorPlaceholder, author |-> DefaultName, source |-> DefaultName]

\* crawlNewsDetail from the answer of the attempt-th get: fetch again, or the
\* record it returns.  Every throw ends in the catch, which returns a record.
crawlNewsDetailMut_RetryOnThrow(attempt, resp, parsed) ==
    IF resp # "full" /\ attempt < maxAttempts
    THEN [retry |-> TRUE, detail |-> NoDetail]
    ELSE [retry |-> FALSE,
          detail |-> IF resp = "fail" \/ parsed.throws
                     THEN ErrorRecord ELSE DetailRecord(parsed)]

crawlNewsDetail(attempt, resp, parsed) ==
    IF resp = "fail"
    THEN [retry |-> FALSE, detail |-> ErrorRecord]
    ELSE IF ~(resp = "full" \/ attempt = maxAttempts)
    THEN [retry |-> TRUE, detail |-> NoDetail]
    ELSE [retry |-> FALSE,
          detail |-> IF parsed.throws THEN ErrorRecord ELSE DetailRecord(parsed)]

\* await this.delay(300 + attempt * 200)
RetryDelay(attempt) == 300 + attempt * 200

\* One whole call of crawlNewsDetail, from its attempt-th get on: the record it
\* returns, the number of gets it has made by then, and what it did in order
\* (the gets, the delays between them, the parsing of the page of a get).
\* pages[k] is what the parser finds in the page the k-th get answers.
RECURSIVE DetailCallMut_ParsesFirst(_, _, _)
DetailCallMut_ParsesFirst(attempt, responses, pages) ==
    LET step == crawlNewsDetail(attempt, responses[attempt], pages[1])
    IN  IF step.retry
        THEN LET rest == DetailCallMut_ParsesFirst(attempt + 1, responses, pages)
             IN  [rest EXCEPT !.trace = <<[op |-> "get", arg |-> attempt],
                                          [op |-> "delay", arg |-> RetryDelay(attempt)]>> \o @]
        ELSE [detail |-> step.detail, gets |-> attempt,
              trace |-> <<[op |-> "get", arg |-> attempt]>>
                        \o (IF responses[attempt] = "fail" THEN <<>>
                            ELSE <<[op |-> "parse", arg |-> 1]>>)]

RECURSIVE DetailCall(_, _, _)
DetailCall(attempt, responses, pages) ==
    LET step == crawlNewsDetail(attempt, responses[attempt], pages[attempt])
    IN  IF step.retry
        THEN LET rest == DetailCall(attempt + 1, responses, pages)
             IN  [rest EXCEPT !.trace = <<[op |-> "get", arg |-> attempt],
                                          [op |-> "delay", arg |-> RetryDelay(attempt)]>> \o @]
        ELSE [detail |-> step.detail, gets |-> attempt,
              trace |-> <<[op |-> "get", arg |-> attempt]>>
                        \o (IF responses[attempt] = "fail" THEN <<>>
                            ELSE <<[op |-> "parse", arg |-> attempt]>>)]

\* A task whose promise has settled keeps no locals (`failure` records what
\* failed inside the task: "fetch", "parse", "persist", or "none").
SetTask(r, i, t) ==
    [run[r].detailTasks EXCEPT ![i] =
        IF t.pc = "done" THEN [t EXCEPT !.attempt = 0, !.detail = NoDetail] ELSE t]

\* A detail task, from the answer of a get to cache.set and the call of saveNewsDetail.
TaskFetch(r, i) ==
    /\ i \in DOMAIN run[r].detailTasks
    /\ run[r].detailTasks[i].pc = "fetch"
    /\ \E resp \in DetailResponses, parsed \in ParseOutcomes :
        LET t == run[r].detailTasks[i]
            step == crawlNewsDetail(t.attempt, resp, parsed)
        IN  IF step.retry
            THEN /\ run' = [run EXCEPT ![r].detailTasks =
                        SetTask(r, i, [t EXCEPT !.attempt = @ + 1])]
                 /\ cache' = cache
            ELSE /\ cache' = [cache EXCEPT ![t.url] = step.detail]
                 /\ run' = [run EXCEPT ![r].detailTasks =
                        SetTask(r, i, [t EXCEPT !.detail = step.detail,
                                                !.failure = IF resp = "fail" THEN "fetch"
                                                            ELSE IF parsed.throws THEN "parse"
                                                            ELSE @,
                                                !.pc = IF step.detail # NoDetail
                                                       THEN "create" ELSE "done"])]
    /\ UNCHANGED <<news_main, news_detail, news_crawl_log, faults, env, probe>>

\* A finished call of saveNewsDetail: what it returned (or that it threw), and
\* whether a store call of it failed.
Call(id, kind, row, fault) ==
    [news_se |-> id, kind |-> kind, row |-> row, fault |-> fault]

\* A detail task, the answer of news_detail.create.  A throw of saveNewsDetail
\* is caught by crawlAndSaveDetailNews.
TaskCreateMut_Propagates(r, i) ==
    /\ i \in DOMAIN run[r].detailTasks
    /\ run[r].detailTasks[i].pc = "create"
    /\ \E ok \in StoreAnswers : Answered(ok) /\
        LET t == run[r].detailTasks[i]
            res == saveNewsDetailCreate(news_detail, t.news_se, t.detail, ok)
        IN  /\ news_detail' = IF res.kind = "saved" THEN Append(news_detail, res.row)
                              ELSE news_detail
            /\ run' = [run EXCEPT ![r] =
                [@ EXCEPT !.detailTasks =
                              SetTask(r, i, [t EXCEPT !.pc = IF res.kind = "P2002"
                                                             THEN "find" ELSE "done",
                                                      !.failure = IF res.kind = "throw"
                                                                  THEN "persist" ELSE @]),
                          !.pc = IF res.kind = "throw" THEN "raised" ELSE @,
                          !.store = StoreSeen(@, ok)]]
    /\ UNCHANGED <<news_main, news_crawl_log, cache, env, probe>>

TaskCreate(r, i) ==
    /\ i \in DOMAIN run[r].detailTasks
    /\ run[r].detailTasks[i].pc = "create"
    /\ \E ok \in StoreAnswers : Answered(ok) /\
        LET t == run[r].detailTasks[i]
            res == saveNewsDetailCreate(news_detail, t.news_se, t.detail, ok)
        IN  /\ news_detail' = IF res.kind = "saved" THEN Append(news_detail, res.row)
                              ELSE news_detail
            /\ run' = [run EXCEPT ![r] =
                [@ EXCEPT !.detailTasks =
                              SetTask(r, i, [t EXCEPT !.pc = IF res.kind = "P2002"
                                                             THEN "find" ELSE "done",
                                                      !.failure = IF res.kind = "throw"
                                                                  THEN "persist" ELSE @]),
                          !.store = StoreSeen(@, ok),
                          !.calls =
                              CASE res.kind = "saved" ->
                                      @ \cup {Call(t.news_se, "returned", res.row, FALSE)}
                                [] res.kind = "throw" ->
                                      @ \cup {Call(t.news_se, "threw", NoRow, TRUE)}
                                [] OTHER -> @]]
    /\ UNCHANGED <<news_main, news_crawl_log, cache, env, probe>>

\* A detail task, the answer of news_detail.findUnique after P2002.
TaskFind(r, i) ==
    /\ i \in DOMAIN run[r].detailTasks
    /\ run[r].detailTasks[i].pc = "find"
    /\ \E ok \in StoreAnswers : Answered(ok) /\
        LET t == run[r].detailTasks[i]
            row == saveNewsDetailFind(news_detail, t.news_se, ok)
        IN  run' = [run EXCEPT ![r] =
                [@ EXCEPT !.detailTasks = SetTask(r, i, [t EXCEPT !.pc = "done"]),
                          !.store = StoreSeen(@, ok),
                          !.calls = @ \cup {Call(t.news_se, "returned", row, ~ok)}]]
    /\ UNCHANGED <<news_main, news_detail, news_crawl_log, cache, env, probe>>

TasksSettled(r) ==
    \A i \in DOMAIN run[r].detailTasks : run[r].detailTasks[i].pc = "done"

\* if (detailTasks.length) await Promise.allSettled(detailTasks)
JoinMut_OnlyFulfilled(r) ==
    /\ run[r].pc = "save"
    /\ run[r].saveIdx > Len(run[r].newArticles)
    /\ TasksSettled(r)
    /\ \A i \in DOMAIN run[r].detailTasks : run[r].detailTasks[i].failure = "none"
    /\ run' = [run EXCEPT ![r] =
            [@ EXCEPT !.pc = "closeLog", !.allArticles = <<>>, !.newArticles = <<>>,
                      !.saveIdx = 0, !.events = Append(@, "join")]]
    /\ UNCHANGED <<news_main, news_detail, news_crawl_log, cache, faults, env, probe>>

JoinMut_NoWait(r) ==
    /\ run[r].pc = "save"
    /\ run[r].saveIdx > Len(run[r].newArticles)
    /\ run' = [run EXCEPT ![r] =
            [@ EXCEPT !.pc = "closeLog", !.allArticles = <<>>, !.newArticles = <<>>,
                      !.saveIdx = 0, !.events = Append(@, "join")]]
    /\ UNCHANGED <<news_main, news_detail, news_crawl_log, cache, faults, env, probe>>

Join(r) ==
    /\ run[r].pc = "save"
    /\ run[r].saveIdx > Len(run[r].newArticles)
    /\ TasksSettled(r)
    /\ run' = [run EXCEPT ![r] =
            [@ EXCEPT !.pc = "closeLog", !.allArticles = <<>>, !.newArticles = <<>>,
                      !.saveIdx = 0, !.events = Append(@, "join")]]
    /\ UNCHANGED <<news_main, news_detail, news_crawl_log, cache, faults, env, probe>>

\* updateCrawlLog: findUnique and update of the row; every error is caught and
\* logged, nothing is thrown.
updateCrawlLog(table, logId, status, message, itemCount, ok) ==
    IF ok /\ logId \in DOMAIN table
    THEN [table EXCEPT ![logId] =
            [status_cd |-> status, message_ct |-> message, item_va |-> itemCount,
             updates |-> @.updates + 1]]
    ELSE table

\* await this.newsService.updateCrawlLog(logId, 'success', ..., itemCount)
CloseLogMut_Skipped(r) ==
    /\ run[r].pc = "closeLog"
    /\ run' = [run EXCEPT ![r] = [@ EXCEPT !.pc = "bfQuery"]]
    /\ UNCHANGED <<news_main, news_detail, news_crawl_log, cache, faults, env, probe>>

CloseLog(r) ==
    /\ run[r].pc = "closeLog"
    /\ \E ok \in StoreAnswers : Answered(ok) /\
        /\ news_crawl_log' = updateCrawlLog(news_crawl_log, run[r].logId, "success",
                                            "collected", run[r].itemCount, ok)
        /\ run' = [run EXCEPT ![r] =
                [@ EXCEPT !.pc = "bfQuery",
                          !.store = StoreSeen(@, ok),
                          !.updateCalls = @ + 1,
                          !.events = Append(@, "close")]]
    /\ UNCHANGED <<news_main, news_detail, cache, env, probe>>

\* ----------------------------------------------------------- backfillDetails
\* The next row of `targets` from position `from` on that has a url_lk
\* (if (!row.url_lk) continue), or Len(targets) + 1.
NextRow(targets, from) ==
    LET rest == {k \in from..Len(targets) : news_main[targets[k]].url_lk # NoUrl}
    IN  IF rest = {} THEN Len(targets) + 1
        ELSE CHOOSE k \in rest : \A m \in rest : k <= m

Returned(itemCount) == [kind |-> "returned", success |-> TRUE, itemCount |-> itemCount]

\* The sweep goes on with row `from` of `targets` (crawlNewsDetail(row.url_lk)
\* issues its first get, whatever the cache holds), or ends; crawlNews then
\* returns { success: true, itemCount }.  cachedGets holds the urls a get was issued
\* for while their detail was in the cache.
SweepFrom(rec, targets, from) ==
    LET k == NextRow(targets, from)
    IN  IF k <= Len(targets)
        THEN [rec EXCEPT !.pc = "bfFetch", !.targets = targets, !.bfIdx = k,
                         !.bfAttempt = 1, !.bfDetail = NoDetail,
                         !.cachedGets =
                             IF cache[news_main[targets[k]].url_lk] # NoDetail
                             THEN @ \cup {news_main[targets[k]].url_lk} ELSE @]
        ELSE [rec EXCEPT !.pc = "done", !.targets = targets, !.bfIdx = k,
                         !.bfAttempt = 0, !.bfDetail = NoDetail,
                         !.result = Returned(rec.itemCount),
                         !.events = Append(@, "sweep end")]

\* backfillDetails: getMainNewsWithoutDetail(limit), [] when the query fails;
\* if (!targets.length) return.
BackfillQueryMut_Throws(r) ==
    /\ run[r].pc = "bfQuery"
    /\ run' = [run EXCEPT ![r] =
            [@ EXCEPT !.pc = "raised",
                      !.result = [kind |-> "raised", success |-> FALSE, itemCount |-> 0]]]
    /\ news_crawl_log' = updateCrawlLog(news_crawl_log, run[r].logId, "error",
                                        "query failed", run[r].itemCount, TRUE)
    /\ UNCHANGED <<news_main, news_detail, cache, faults, env, probe>>

BackfillQuery(r) ==
    /\ run[r].pc = "bfQuery"
    /\ \E ok \in StoreAnswers : Answered(ok) /\
        \E targets \in IF ok THEN getMainNewsWithoutDetail(env.limit) ELSE {<<>>} :
            run' = [run EXCEPT ![r] =
                SweepFrom([run[r] EXCEPT !.store = StoreSeen(@, ok),
                                         !.missingAtSweep = MissingDetail,
                                         !.sweepFault = ~ok,
                                         !.events = Append(@, "sweep")],
                          targets, 1)]
    /\ UNCHANGED <<news_main, news_detail, news_crawl_log, cache, env, probe>>

\* A row of the sweep, from the answer of a get of crawlNewsDetail(row.url_lk)
\* to the call of saveNewsDetail: if (detail && detail.content).
BackfillFetch(r) ==
    /\ run[r].pc = "bfFetch"
    /\ \E resp \in DetailResponses, parsed \in ParseOutcomes :
        LET step == crawlNewsDetail(run[r].bfAttempt, resp, parsed)
        IN  run' = [run EXCEPT ![r] =
                IF step.retry
                THEN [@ EXCEPT !.bfAttempt = @ + 1]
                ELSE IF step.detail # NoDetail /\ step.detail.content # ""
                THEN [@ EXCEPT !.pc = "bfCreate", !.bfDetail = step.detail]
                ELSE SweepFrom(run[r], run[r].targets, run[r].bfIdx + 1)]
    /\ UNCHANGED <<news_main, news_detail, news_crawl_log, cache, faults, env, probe>>

\* A row of the sweep, the answer of news_detail.create; a throw of
\* saveNewsDetail is caught per row and the sweep goes on.
BackfillCreateMut_StopsOnThrow(r) ==
    /\ run[r].pc = "bfCreate"
    /\ \E ok \in StoreAnswers : Answered(ok) /\
        LET id == run[r].targets[run[r].bfIdx]
            res == saveNewsDetailCreate(news_detail, id, run[r].bfDetail, ok)
            seen == [run[r] EXCEPT
                        !.store = StoreSeen(@, ok),
                        !.sweepFault = @ \/ ~ok,
                        !.calls =
                            CASE res.kind = "saved" ->
                                    @ \cup {Call(id, "returned", res.row, FALSE)}
                              [] res.kind = "throw" ->
                                    @ \cup {Call(id, "threw", NoRow, TRUE)}
                              [] OTHER -> @]
        IN  /\ news_detail' = IF res.kind = "saved" THEN Append(news_detail, res.row)
                              ELSE news_detail
            /\ run' = [run EXCEPT ![r] =
                    IF res.kind = "P2002"
                    THEN [seen EXCEPT !.pc = "bfFind"]
                    ELSE IF res.kind = "throw"
                    THEN SweepFrom(seen, run[r].targets, Len(run[r].targets) + 1)
                    ELSE SweepFrom(seen, run[r].targets, run[r].bfIdx + 1)]
    /\ UNCHANGED <<news_main, news_crawl_log, cache, env, probe>>

BackfillCreate(r) ==
    /\ run[r].pc = "bfCreate"
    /\ \E ok \in StoreAnswers : Answered(ok) /\
        LET id == run[r].targets[run[r].bfIdx]
            res == saveNewsDetailCreate(news_detail, id, run[r].bfDetail, ok)
            seen == [run[r] EXCEPT
                        !.store = StoreSeen(@, ok),
                        !.sweepFault = @ \/ ~ok,
                        !.calls =
                            CASE res.kind = "saved" ->
                                    @ \cup {Call(id, "returned", res.row, FALSE)}
                              [] res.kind = "throw" ->
                                    @ \cup {Call(id, "threw", NoRow, TRUE)}
                              [] OTHER -> @]
        IN  /\ news_detail' = IF res.kind = "saved" THEN Append(news_detail, res.row)
                              ELSE news_detail
            /\ run' = [run EXCEPT ![r] =
                    IF res.kind = "P2002"
                    THEN [seen EXCEPT !.pc = "bfFind"]
                    ELSE SweepFrom(seen, run[r].targets, run[r].bfIdx + 1)]
    /\ UNCHANGED <<news_main, news_crawl_log, cache, env, probe>>

\* A row of the sweep, the answer of news_detail.findUnique after P2002.
BackfillFindMut_Raises(r) ==
    /\ run[r].pc = "bfFind"
    /\ \E ok \in StoreAnswers : Answered(ok) /\
        run' = [run EXCEPT ![r] =
            [@ EXCEPT !.pc = "raised",
                      !.store = StoreSeen(@, ok),
                      !.result = [kind |-> "raised", success |-> FALSE, itemCount |-> 0]]]
    /\ UNCHANGED <<news_main, news_detail, news_crawl_log, cache, env, probe>>

BackfillFind(r) ==
    /\ run[r].pc = "bfFind"
    /\ \E ok \in StoreAnswers : Answered(ok) /\
        LET id == run[r].targets[run[r].bfIdx]
            row == saveNewsDetailFind(news_detail, id, ok)
            seen == [run[r] EXCEPT
                        !.store = StoreSeen(@, ok),
                        !.sweepFault = @ \/ ~ok,
                        !.calls = @ \cup {Call(id, "returned", row, ~ok)}]
        IN  run' = [run EXCEPT ![r] =
                SweepFrom(seen, run[r].targets, run[r].bfIdx + 1)]
    /\ UNCHANGED <<news_main, news_detail, news_crawl_log, cache, env, probe>>

\* ------------------------------------------------- other writers of the store
\* The store is shared: another process (or another call of crawlNews) saves an
\* article through the same unique url_lk ...
OtherWriterMain(u) ==
    /\ env.otherWriter
    /\ saveMainNews(news_main, u, TRUE).kind = "saved"
    /\ news_main' = Append(news_main, saveMainNews(news_main, u, TRUE).row)
    /\ UNCHANGED <<news_detail, news_crawl_log, cache, run, faults, env, probe>>

\* ... and the detail of an article through the same unique news_se.
OtherWriterDetail(id) ==
    /\ env.otherWriter
    /\ id \in DOMAIN news_main
    /\ LET res == saveNewsDetailCreate(news_detail, id, [NoDetail EXCEPT !.content = ArticleText],
                                        TRUE)
       IN  /\ res.kind = "saved"
           /\ news_detail' = Append(news_detail, res.row)
    /\ UNCHANGED <<news_main, news_crawl_log, cache, run, faults, env, probe>>

\* ------------------------------------------------------------------ texts
\* A text (an anchor text, a title) is a sequence of lexemes: a provider name
\* of the providers list, a date 20dd-dd-dd, a separator, a space, the letter s,
\* a Hangul syllable, and the words the listing parser looks for.
Provider == "P"
DateToken == "D"
Slash == "/"
Space == " "
LetterS == "s"
Syllables == {"j", "m"}
MoreWord == "more"
SisaWord == "sisa"

\* Times: of the date a text can hold, and of the clock before and after it.
DateTime == 1
Times == {0, 2}

\* The characters of a lexeme (a provider name of 4, a date of 10).
CharLen(c) ==
    CASE c = Provider -> 4
      [] c = DateToken -> 10
      [] c = MoreWord -> 3
      [] c = SisaWord -> 2
      [] OTHER -> 1

RECURSIVE TextLen(_)
TextLen(t) == IF t = <<>> THEN 0 ELSE CharLen(Head(t)) + TextLen(Tail(t))

\* String.prototype.trim
Trim(t) ==
    LET inked == {i \in DOMAIN t : t[i] # Space}
    IN  IF inked = {} THEN <<>>
        ELSE SubSeq(t, KthOf(inked, 1), KthOf(inked, Cardinality(inked)))

\* replace(/\s{2,}/g, ' ') and replace(/\s+/g, ' '): a run of spaces becomes one.
CollapseSpaces(t) ==
    Pick(t, {i \in DOMAIN t : t[i] # Space \/ i = 1 \/ t[i - 1] # Space})

\* The first position from p on whose lexeme is not in S (Len(t) + 1 if none).
SkipWhile(t, p, S) ==
    LET stop == {i \in p..Len(t) : t[i] \notin S}
    IN  IF stop = {} THEN Len(t) + 1 ELSE KthOf(stop, 1)

\* normalizeTitleProvider, step 1, one round:
\*   ^(?:providers)(?:\s*[/|:>-]+\s*|/)+(?=\n|\[|[word char] )
\* a provider, a run of spaces and separators holding a separator, and then (not
\* consumed) one single word character followed by a space.
StripProviderSeparators(t) ==
    IF t # <<>> /\ t[1] = Provider
    THEN LET e == SkipWhile(t, 2, {Space, Slash})
         IN  IF /\ \E i \in 2..(e - 1) : t[i] = Slash
                /\ e + 1 <= Len(t)
                /\ t[e] \in Syllables \cup {LetterS}
                /\ t[e + 1] = Space
             THEN SubSeq(t, e, Len(t))
             ELSE t
    ELSE t

\* normalizeTitleProvider, step 1: for (let i = 0; i < 3; i++) { replace; if
\* (before === title) break; title = title.trim() }
RECURSIVE StripRounds(_, _)
StripRounds(t, rounds) ==
    IF rounds = 0 \/ StripProviderSeparators(t) = t THEN t
    ELSE StripRounds(Trim(StripProviderSeparators(t)), rounds - 1)

\* normalizeTitleProvider, step 2.  The pattern is written in a template literal
\* with a single backslash before s, so the regular expression built is
\*   ^(?:providers)s*[/|-]?s*20\d{2}-\d{2}-\d{2}s*
\* a provider, letters s, at most one separator, letters s, a date, letters s.
StripProviderDate(t) ==
    IF t # <<>> /\ t[1] = Provider
    THEN LET a == SkipWhile(t, 2, {LetterS})
             b == IF a <= Len(t) /\ t[a] = Slash THEN a + 1 ELSE a
             c == SkipWhile(t, b, {LetterS})
         IN  IF c <= Len(t) /\ t[c] = DateToken
             THEN SubSeq(t, SkipWhile(t, c + 1, {LetterS}), Len(t))
             ELSE t
    ELSE t

\* replace(/^(.+?)\s+\1$/, '$1'): a text made of X, spaces, X becomes X (the
\* shortest such X).
Undouble(t) ==
    LET halves == {k \in 1..Len(t) :
                      /\ 2 * k < Len(t)
                      /\ SubSeq(t, 1, k) = SubSeq(t, Len(t) - k + 1, Len(t))
                      /\ \A i \in (k + 1)..(Len(t) - k) : t[i] = Space}
    IN  IF halves = {} THEN t ELSE SubSeq(t, 1, KthOf(halves, 1))

normalizeTitleProvider(raw) ==
    IF raw = <<>> THEN raw
    ELSE Undouble(Trim(CollapseSpaces(StripProviderDate(StripRounds(Trim(raw), 3)))))

\* ------------------------------------------------------- the listing parser
\* An anchor of a listing page: its article url (NoUrl when the href is no
\* article link), its text, whether it is inside an article or section element,
\* and the clock (new Date()) when each pass comes to it.
CleanText(text) == Trim(CollapseSpaces(text))

\* The date in the anchor text, else the time of the call.
PublishedAt(raw, now) == IF DateToken \in Range(raw) THEN DateTime ELSE now

Item(title, a, publishedAt, categoryName, rank) ==
    [title |-> title, url |-> a.url, category |-> categoryName,
     publishedAt |-> publishedAt, rank |-> rank]

\* 1) $('a[href*="/article/"]').each(...): the anchors in document order.
RECURSIVE PrimaryPass(_, _, _, _, _)
PrimaryPass(anchors, i, items, seenUrls, categoryName) ==
    IF i > Len(anchors) \/ Len(items) >= PrimaryCap
    THEN [items |-> items, seenUrls |-> seenUrls]
    ELSE LET a == anchors[i]
             rawText == CleanText(a.text)
             title == normalizeTitleProvider(rawText)
         IN  IF \/ a.url = NoUrl
                \/ a.url \in seenUrls
                \/ rawText = <<>>
                \/ MoreWord \in Range(rawText)
                \/ rawText[Len(rawText)] = SisaWord
                \/ TextLen(title) < MinTitleLen
             THEN PrimaryPass(anchors, i + 1, items, seenUrls, categoryName)
             ELSE PrimaryPass(anchors, i + 1,
                              Append(items, Item(title, a, PublishedAt(rawText, a.at1),
                                                 categoryName, Len(items) + 1)),
                              seenUrls \cup {a.url}, categoryName)

\* 2) $('article a[...], section a[...]').each(...): the length of the text is
\* looked at before normalizeTitleProvider is applied to it.
RECURSIVE SecondaryPass(_, _, _, _, _)
SecondaryPass(anchors, i, items, seenUrls, categoryName) ==
    IF i > Len(anchors) \/ Len(items) >= SecondaryCap
    THEN items
    ELSE LET a == anchors[i]
             t == CleanText(a.text)
         IN  IF \/ ~a.nested
                \/ a.url = NoUrl
                \/ a.url \in seenUrls
                \/ t = <<>>
                \/ TextLen(t) < MinTitleLen
                \/ MoreWord \in Range(t)
             THEN SecondaryPass(anchors, i + 1, items, seenUrls, categoryName)
             ELSE SecondaryPass(anchors, i + 1,
                                Append(items, Item(normalizeTitleProvider(t), a, a.at2,
                                                   categoryName, Len(items) + 1)),
                                seenUrls \cup {a.url}, categoryName)

\* items.sort((a, b) => b.publishedAt - a.publishedAt): Array.prototype.sort is
\* stable; an item is put behind every item that is not older than it.
RECURSIVE InsertByDateMut_BeforeEqual(_, _)
InsertByDateMut_BeforeEqual(sorted, x) ==
    IF sorted = <<>> THEN <<x>>
    ELSE IF Head(sorted).publishedAt > x.publishedAt
    THEN <<Head(sorted)>> \o InsertByDateMut_BeforeEqual(Tail(sorted), x)
    ELSE <<x>> \o sorted

RECURSIVE InsertByDate(_, _)
InsertByDate(sorted, x) ==
    IF sorted = <<>> THEN <<x>>
    ELSE IF Head(sorted).publishedAt >= x.publishedAt
    THEN <<Head(sorted)>> \o InsertByDate(Tail(sorted), x)
    ELSE <<x>> \o sorted

RECURSIVE SortByPublishedAt(_)
SortByPublishedAt(items) ==
    IF items = <<>> THEN <<>>
    ELSE InsertByDate(SortByPublishedAt(SubSeq(items, 1, Len(items) - 1)),
                      items[Len(items)])

\* crawlCategoryNews after the fetch: both passes, the sort, the cap.
ListingItems(anchors, categoryName) ==
    LET first == PrimaryPass(anchors, 1, <<>>, {}, categoryName)
        items == IF Len(first.items) < SecondaryThreshold
                 THEN SecondaryPass(anchors, 1, first.items, first.seenUrls, categoryName)
                 ELSE first.items
        sorted == SortByPublishedAt(items)
    IN  SubSeq(sorted, 1, Min(Len(sorted), MAX_PER_CATEGORY))

\* ------------------------------------------------------------ specification
\* No pure function is under check.
NoProbe == [fn |-> "none"]

\* The store a process finds when it starts: the first k urls are stored as
\* articles, the first d of them have their detail.  The cache is process-local
\* and starts empty; no run is in progress.
InitState(k, d, e) ==
    /\ news_main = [i \in 1..k |-> [news_se |-> i, url_lk |-> i]]
    /\ news_detail = [i \in 1..d |-> [news_se |-> i, content_ct |-> ArticleText]]
    /\ news_crawl_log = <<>>
    /\ cache = [u \in URLS |-> NoDetail]
    /\ run = [r \in Runs |-> IdleRun]
    /\ faults = 0
    /\ env = e

\* One run next to other writers of the store; the store and the origin may fail
\* at any call.
Init ==
    /\ InitState(0, 0, [slots |-> {"r1"}, storeFaults |-> TRUE, listingFaults |-> TRUE,
                        detailFaults |-> FALSE,
                        categories |-> NumCategories, otherWriter |-> TRUE,
                        limit |-> BackfillLimit])
    /\ probe = NoProbe

\* Two runs, overlapping in any way, over one category; no call fails and every
\* page has a body.
InitOverlap ==
    /\ \E k \in 0..NumUrls :
        InitState(k, 0, [slots |-> Runs, storeFaults |-> FALSE, listingFaults |-> FALSE,
                         detailFaults |-> FALSE,
                         categories |-> 1, otherWriter |-> FALSE,
                        limit |-> BackfillLimit])
    /\ probe = NoProbe

\* One run over one category next to other writers; the store and the detail
\* pages may fail at any call (a get that throws, a thin body, a parse that throws).
InitDetail ==
    /\ InitState(0, 0, [slots |-> {"r1"}, storeFaults |-> TRUE, listingFaults |-> FALSE,
                        detailFaults |-> TRUE,
                        categories |-> 1, otherWriter |-> TRUE,
                        limit |-> BackfillLimit])
    /\ probe = NoProbe

RunStep(r) ==
    \/ Start(r)
    \/ CategoryFetch(r)
    \/ CategoryDelay(r)
    \/ Dedup(r)
    \/ SaveMain(r)
    \/ \E i \in 1..NumUrls : TaskFetch(r, i)
    \/ \E i \in 1..NumUrls : TaskCreate(r, i)
    \/ \E i \in 1..NumUrls : TaskFind(r, i)
    \/ Join(r)
    \/ CloseLog(r)
    \/ BackfillQuery(r)
    \/ BackfillFetch(r)
    \/ BackfillCreate(r)
    \/ BackfillFind(r)

Next ==
    \/ \E r \in Runs : RunStep(r)
    \/ \E u \in URLS : OtherWriterMain(u)
    \/ \E id \in 1..NumUrls : OtherWriterDetail(id)

NextOverlap == \E r \in Runs : RunStep(r)

Spec == Init /\ [][Next]_vars

SpecOverlap == InitOverlap /\ [][NextOverlap]_vars

SpecDetail == InitDetail /\ [][Next]_vars

\* What the cache of the process can hold for a url when a run starts: nothing,
\* or what an earlier detail task has set (the record of a parsed page, the
\* record of the catch).  An earlier run has stored the article, and the article
\* is no longer in the store (its removal is the work of another program).
CachedDetails ==
    {NoDetail, ErrorRecord, DetailRecord([NoDetail EXCEPT !.content = ArticleText])}

\* One run over one category next to other writers, in a process whose cache
\* has entries of earlier runs; the detail pages may fail at any get.
InitCached ==
    /\ news_main = <<>>
    /\ news_detail = <<>>
    /\ news_crawl_log = <<>>
    /\ cache \in [URLS -> CachedDetails]
    /\ run = [r \in Runs |-> IdleRun]
    /\ faults = 0
    /\ env = [slots |-> {"r1"}, storeFaults |-> FALSE, listingFaults |-> FALSE,
              detailFaults |-> TRUE, categories |-> 1, otherWriter |-> TRUE,
                        limit |-> BackfillLimit]
    /\ probe = NoProbe

SpecCached == InitCached /\ [][Next]_vars

\* What the store holds when a run about the sweep starts: nothing, an article
\* with a url and one without (url_lk is null in a row of another writer), or
\* two articles with urls; none has a detail.
StoredUrls == {<<>>, <<1, NoUrl>>, <<NoUrl, 1>>, <<1, 2>>}

\* One run over one category next to other writers, BACKFILL_DETAIL_LIMIT set
\* to SweepLimit; the store and the detail pages may fail at any call.
InitSweep ==
    /\ \E urls \in StoredUrls :
          news_main = [i \in DOMAIN urls |-> [news_se |-> i, url_lk |-> urls[i]]]
    /\ news_detail = <<>>
    /\ news_crawl_log = <<>>
    /\ cache = [u \in URLS |-> NoDetail]
    /\ run = [r \in Runs |-> IdleRun]
    /\ faults = 0
    /\ env = [slots |-> {"r1"}, storeFaults |-> TRUE, listingFaults |-> FALSE,
              detailFaults |-> TRUE, categories |-> 1, otherWriter |-> TRUE,
              limit |-> SweepLimit]
    /\ probe = NoProbe

SpecSweep == InitSweep /\ [][Next]_vars

\* Every call of the Page Fetcher and of the store returns or fails, and the
\* event loop runs the continuation of a run that is ready: a run that can take
\* a step takes one.
Fairness == \A r \in Runs : WF_vars(RunStep(r))

SpecFair == SpecDetail /\ Fairness

\* ------------------------------------------------- the parsers, one call each
\* No run: only a pure function is applied.
NoRuns ==
    [slots |-> {}, storeFaults |-> FALSE, listingFaults |-> FALSE,
     detailFaults |-> FALSE, categories |-> 0, otherWriter |-> FALSE,
                        limit |-> BackfillLimit]

SeqsUpTo(S, n) == UNION {[1..k -> S] : k \in 0..n}

\* The anchor texts handed to normalizeTitleProvider: any start made of
\* providers, separators, spaces, dates and letters s, then any words.
RawTitles ==
    {p \o b : p \in SeqsUpTo({Provider, Slash, Space, DateToken, LetterS}, MaxPrefixLen),
              b \in SeqsUpTo(Syllables \cup {Space}, MaxBodyLen)}

InitTitle ==
    /\ InitState(0, 0, NoRuns)
    /\ \E raw \in RawTitles :
          probe = [fn |-> "normalizeTitleProvider", in |-> raw, out |-> <<>>, done |-> FALSE]

Normalize ==
    /\ probe.fn = "normalizeTitleProvider"
    /\ ~probe.done
    /\ probe' = [probe EXCEPT !.out = normalizeTitleProvider(probe.in), !.done = TRUE]
    /\ UNCHANGED <<news_main, news_detail, news_crawl_log, cache, run, faults, env>>

SpecTitle == InitTitle /\ [][Normalize]_vars

\* One call of crawlNewsDetail on its own: what each get answers and what the
\* parser finds in the page of each get.
FaultyOrigin == [NoRuns EXCEPT !.detailFaults = TRUE]

InitExtract ==
    /\ InitState(0, 0, FaultyOrigin)
    /\ \E responses \in [1..maxAttempts -> {"full", "thin", "fail"}],
          pages \in [1..maxAttempts -> Extractions] :
          probe = [fn |-> "crawlNewsDetail",
                   in |-> [responses |-> responses, pages |-> pages],
                   out |-> [detail |-> NoDetail, gets |-> 0, trace |-> <<>>],
                   done |-> FALSE]

Extract ==
    /\ probe.fn = "crawlNewsDetail"
    /\ ~probe.done
    /\ probe' = [probe EXCEPT !.out = DetailCall(1, probe.in.responses, probe.in.pages),
                              !.done = TRUE]
    /\ UNCHANGED <<news_main, news_detail, news_crawl_log, cache, run, faults, env>>

SpecExtract == InitExtract /\ [][Extract]_vars

\* The anchor texts of a listing page: a title, a provider/date and a short
\* title, a provider/date and a title, a short title, the "more" link, a title
\* ending with the section word.
AnchorTexts ==
    {<<"j", "m", "j", "m", "j">>,
     <<Provider, Slash, DateToken, Space, "j", "m">>,
     <<Provider, Slash, DateToken, Space, "j", "m", "j", "m", "j">>,
     <<"j", "m">>,
     <<MoreWord>>,
     <<"j", "m", "j", "m", "j", Space, SisaWord>>}

Anchors ==
    [url : URLS \cup {NoUrl}, text : AnchorTexts, nested : BOOLEAN,
     at1 : Times, at2 : Times]

\* The pages: the clock never goes back, and the second pass comes after the first.
Pages ==
    {p \in SeqsUpTo(Anchors, MaxAnchors) :
        /\ \A i, j \in DOMAIN p : i < j => p[i].at1 <= p[j].at1 /\ p[i].at2 <= p[j].at2
        /\ \A i, j \in DOMAIN p : p[i].at1 <= p[j].at2}

InitListing ==
    /\ InitState(0, 0, NoRuns)
    /\ \E page \in Pages :
          probe = [fn |-> "crawlCategoryNews", in |-> page, out |-> <<>>, done |-> FALSE]

ParseListing ==
    /\ probe.fn = "crawlCategoryNews"
    /\ ~probe.done
    /\ probe' = [probe EXCEPT !.out = ListingItems(probe.in, 1), !.done = TRUE]
    /\ UNCHANGED <<news_main, news_detail, news_crawl_log, cache, run, faults, env>>

SpecListing == InitListing /\ [][ParseListing]_vars

\* ================================================================== claims
LogOf(r) == news_crawl_log[run[r].logId]

HasLog(r) == run[r].logId \in DOMAIN news_crawl_log

Happened(r, e) == e \in Range(run[r].events)

WriteLoopOver(r) ==
    run[r].pc = "save" /\ run[r].saveIdx > Len(run[r].newArticles)

\* C1: a run in which the listing fetch of a category failed (and no store call
\* failed) never raises; when its write loop is over every item collected from
\* the other categories is stored; it ends returning success with its log
\* record in status success.
C1_PartialFailure ==
    \A r \in Runs :
        (run[r].fetchFailed # {} /\ run[r].store = "up") =>
            /\ run[r].pc # "raised"
            /\ WriteLoopOver(r) =>
                  \A i \in DOMAIN run[r].allArticles :
                      /\ run[r].allArticles[i].category \notin run[r].fetchFailed
                      /\ run[r].allArticles[i].url \in ExistingUrlSet
            /\ run[r].pc = "done" =>
                  /\ run[r].result = Returned(run[r].itemCount)
                  /\ LogOf(r).status_cd = "success"

C1_Witness ==
    \E r \in Runs :
        /\ run[r].pc = "done"
        /\ Cardinality(run[r].fetchFailed) = 1
        /\ run[r].store = "up"
        /\ run[r].created # {}
        /\ LogOf(r).status_cd = "success"

C2_LogInvariant ==
    /\ \A r \in Runs :
        /\ run[r].pc \notin {"idle", "raised"} =>
              HasLog(r) /\ run[r].events[1] = "log created"
        /\ run[r].pc = "done" => run[r].updateCalls = 1
        /\ (run[r].pc = "done" /\ run[r].store = "up") =>
              LogOf(r).updates = 1 /\ LogOf(r).status_cd = "success"
    /\ \A i \in DOMAIN news_crawl_log :
        /\ news_crawl_log[i].updates <= 1
        /\ news_crawl_log[i].updates = 0 <=> news_crawl_log[i].status_cd = "started"

C2_LogStep ==
    /\ Len(news_crawl_log') >= Len(news_crawl_log)
    /\ \A i \in DOMAIN news_crawl_log' :
        IF i \in DOMAIN news_crawl_log
        THEN /\ news_crawl_log[i].status_cd # "started" =>
                    news_crawl_log'[i] = news_crawl_log[i]
             /\ news_crawl_log'[i] # news_crawl_log[i] =>
                    news_crawl_log'[i].status_cd \in {"success", "error"}
        ELSE news_crawl_log'[i].status_cd = "started"

C3_StructuralFailure ==
    \A r \in Runs :
        (Ended(r) /\ run[r].store = "down") =>
            /\ run[r].result.kind = "raised"
            /\ LogOf(r).status_cd = "error"

\* The phases of a run in the order the code goes through them, and in the
\* order the control-flow sentence gives.
CodeOrder ==
    <<"log created", "category", "dedup", "write", "join", "close", "sweep", "sweep end">>

ClaimedOrder ==
    <<"log created", "category", "dedup", "write", "join", "sweep", "sweep end", "close">>

Position(order, e) == CHOOSE i \in DOMAIN order : order[i] = e

InOrder(ev, order) ==
    \A i, j \in DOMAIN ev : i < j => Position(order, ev[i]) < Position(order, ev[j])

C5_TasksSettledBeforeSweep ==
    \A r \in Runs :
        run[r].pc \in {"bfQuery", "bfFetch", "bfCreate", "bfFind", "done"} =>
            TasksSettled(r)

C5_Witness ==
    \E r \in Runs :
        /\ run[r].pc = "bfCreate"
        /\ Len(run[r].detailTasks) = NumUrls
        /\ TasksSettled(r)

\* C6: when the existence query answered, the list the write loop works on is
\* exactly the candidates whose url was not stored at the time of the query, in
\* the candidates' order (duplicates within the batch are kept).
C6_DedupFilter ==
    \A r \in Runs :
        (run[r].pc = "save" /\ ~run[r].queryFailed) =>
            LET all == run[r].allArticles
                new == run[r].newArticles
                keep == {i \in DOMAIN all : all[i].url \notin run[r].storedAtQuery}
            IN  /\ Len(new) = Cardinality(keep)
                /\ \A j \in DOMAIN new : new[j] = all[KthOf(keep, j)]

C6_Witness ==
    \E r \in Runs :
        /\ run[r].pc = "save"
        /\ ~run[r].queryFailed
        /\ run[r].storedAtQuery # {}
        /\ Len(run[r].newArticles) >= 2
        /\ Len(run[r].newArticles) < Len(run[r].allArticles)

\* C7: when the existence query failed, every candidate goes to the write loop
\* and the run goes on to return; no two rows of news_main ever have the same
\* url, the create of a stored url being rejected and skipped.
C7_DedupQueryFailure ==
    /\ \A i, j \in DOMAIN news_main :
          i # j => news_main[i].url_lk # news_main[j].url_lk
    /\ \A r \in Runs :
          run[r].queryFailed =>
              /\ run[r].pc # "raised"
              /\ run[r].pc = "save" => run[r].newArticles = run[r].allArticles
              /\ run[r].pc = "done" => run[r].result.kind = "returned"

C7_Witness ==
    \E r \in Runs :
        /\ run[r].queryFailed
        /\ WriteLoopOver(r)
        /\ \E i \in DOMAIN run[r].allArticles :
              run[r].allArticles[i].url \in run[r].storedAtQuery
        /\ run[r].dups > 0

\* C8: itemCount is at every moment the number of news_main rows this run
\* created; that number is what crawlNews returns and what the success update
\* records; a create rejected as duplicate counts nothing and raises nothing.
C8_ItemCount ==
    \A r \in Runs :
        /\ run[r].itemCount = Cardinality(run[r].created)
        /\ run[r].created \subseteq DOMAIN news_main
        /\ run[r].dups > 0 => run[r].pc # "raised"
        /\ run[r].pc = "done" =>
              run[r].result = Returned(Cardinality(run[r].created))
        /\ (HasLog(r) /\ LogOf(r).status_cd = "success") =>
              LogOf(r).item_va = Cardinality(run[r].created)

C8_Witness ==
    \E r \in Runs :
        /\ run[r].pc = "done"
        /\ ~run[r].queryFailed
        /\ run[r].dups > 0
        /\ run[r].created # {}
        /\ LogOf(r).status_cd = "success"

\* C9: every finished call of saveNewsDetail returned (none raised), the article
\* has exactly one news_detail row, and what the call returned is that row; no
\* article ever has two rows.
C9_DetailIdempotent ==
    /\ \A id \in 1..NumUrls : Cardinality(DetailRows(id)) <= 1
    /\ \A r \in Runs : \A c \in run[r].calls :
          /\ c.kind = "returned"
          /\ \E i \in DetailRows(c.news_se) : c.row = news_detail[i]

\* Two calls for the same article, one by each run, have finished.
C9_Witness ==
    \E c1 \in run["r1"].calls, c2 \in run["r2"].calls :
        /\ c1.news_se = c2.news_se
        /\ c1.kind = "returned" /\ c2.kind = "returned"

\* C10 (as stated): when a sweep that met no store failure has ended, every
\* article that had a url and no detail when the sweep queried the store has
\* exactly one news_detail row.
C10_SweepCoversMissing ==
    \A r \in Runs :
        (run[r].pc = "done" /\ ~run[r].sweepFault) =>
            \A id \in run[r].missingAtSweep :
                news_main[id].url_lk # NoUrl => Cardinality(DetailRows(id)) = 1

\* C10 (amended): the sweep works on the rows its query returned, at most
\* BackfillLimit of the articles without detail; when it has ended each of these
\* has exactly one news_detail row; no article ever has two, whatever the number
\* of sweeps, and a sweep never raises.
C10_SweepCoversTargets ==
    /\ \A id \in 1..NumUrls : Cardinality(DetailRows(id)) <= 1
    /\ \A r \in Runs :
          /\ Happened(r, "sweep") => run[r].pc # "raised"
          /\ (Happened(r, "sweep") /\ ~run[r].sweepFault) =>
                /\ Len(run[r].targets) =
                       Min(env.limit, Cardinality(run[r].missingAtSweep))
                /\ Range(run[r].targets) \subseteq run[r].missingAtSweep
          /\ (run[r].pc = "done" /\ ~run[r].sweepFault) =>
                \A id \in Range(run[r].targets) : Cardinality(DetailRows(id)) = 1

\* Both runs have ended a sweep that worked on the same article.
C10_Witness ==
    /\ \A r \in Runs : run[r].pc = "done"
    /\ Range(run["r1"].targets) \cap Range(run["r2"].targets) # {}

\* C11: the Page Fetcher is never asked for a detail page whose url has an
\* entry in the cache (no expiry happens in a behaviour: every fetch is within
\* the time-to-live of every entry).
C11_NoGetOfCachedUrl ==
    \A r \in Runs : run[r].cachedGets = {}

Tasks(r) == run[r].detailTasks

\* C12: once something failed inside a detail task of a run (the get, the
\* parsing, the write of the detail), the run still never raises, itemCount is
\* still the number of rows created (one per task started), every sibling task
\* that has not settled can still take its next step, and when the run has
\* returned it returned success with every task settled.
C12_DetailTaskIsolation ==
    \A r \in Runs :
        (\E i \in DOMAIN Tasks(r) : Tasks(r)[i].failure # "none") =>
            /\ run[r].pc # "raised"
            /\ run[r].itemCount = Cardinality(run[r].created)
            /\ run[r].itemCount = Len(Tasks(r))
            /\ \A j \in DOMAIN Tasks(r) :
                  Tasks(r)[j].pc # "done" =>
                      ENABLED (TaskFetch(r, j) \/ TaskCreate(r, j) \/ TaskFind(r, j))
            /\ run[r].pc = "done" =>
                  TasksSettled(r) /\ run[r].result = Returned(Len(Tasks(r)))

\* A task failed to write its detail; its sibling, untouched, has its detail
\* stored; the run has returned.
C12_Witness ==
    \E r \in Runs : \E i, j \in DOMAIN Tasks(r) :
        /\ run[r].pc = "done"
        /\ Tasks(r)[i].failure = "persist"
        /\ Tasks(r)[j].failure = "none"
        /\ DetailRows(Tasks(r)[j].news_se) # {}
        /\ run[r].result = Returned(2)

\* C13: when the sweep of a run is about to query the store, an article whose
\* detail task met a failed get has no news_detail row made of that failure
\* (so the query selects it unless another writer gave it a detail).
C13_FailedFetchLeavesNoDetail ==
    \A r \in Runs :
        run[r].pc = "bfQuery" =>
            \A i \in DOMAIN Tasks(r) :
                Tasks(r)[i].failure = "fetch" =>
                    \A k \in DetailRows(Tasks(r)[i].news_se) :
                        news_detail[k].content_ct # CrawlErrorPlaceholder

TheTitle == <<"j", "m">>

\* A provider, then a date reached through spaces and at most one separator,
\* then words.
ProviderDatePrefixed(t) ==
    /\ t # <<>> /\ t[1] = Provider
    /\ \E k \in 2..Len(t) :
          /\ t[k] = DateToken
          /\ \A i \in 2..(k - 1) : t[i] \in {Space, Slash}
          /\ Cardinality({i \in 2..(k - 1) : t[i] = Slash}) <= 1
          /\ \A i \in (k + 1)..Len(t) : t[i] \in Syllables \cup {Space}

\* C20: a title that starts with a provider name followed by a date comes out
\* without that provider and that date, and a title made of the same words
\* twice comes out with the words once; provider/date title title gives title.
C20_TitleNormalization ==
    (probe.fn = "normalizeTitleProvider" /\ probe.done) =>
        /\ ProviderDatePrefixed(probe.in) =>
              /\ probe.out = <<>> \/ probe.out[1] # Provider
              /\ DateToken \notin Range(probe.out)
        /\ probe.in = <<Provider, Slash, DateToken, Space>> \o TheTitle \o <<Space>> \o TheTitle =>
              probe.out = TheTitle


Parsed == probe.fn = "crawlCategoryNews" /\ probe.done

\* C14: the list crawlCategoryNews makes of a listing page has no two items
\* with the same url and no item whose title has fewer than 5 characters.
C14_NoDuplicateNoShortTitle ==
    Parsed =>
        /\ \A i, j \in DOMAIN probe.out :
              i # j => probe.out[i].url # probe.out[j].url
        /\ \A i \in DOMAIN probe.out : TextLen(probe.out[i].title) >= MinTitleLen

\* C16: the list crawlCategoryNews returns is ordered by publishedAt, latest
\* first, and two items of the same publishedAt are in the order in which the
\* passes found them.
C16_SortedStable ==
    Parsed =>
        \A i, j \in DOMAIN probe.out :
            i < j =>
                /\ probe.out[i].publishedAt >= probe.out[j].publishedAt
                /\ probe.out[i].publishedAt = probe.out[j].publishedAt =>
                      probe.out[i].rank < probe.out[j].rank

\* Two items of the same publishedAt came out.
C16_Witness ==
    /\ Parsed
    /\ Len(probe.out) = 2
    /\ probe.out[1].publishedAt = probe.out[2].publishedAt
    /\ probe.out[1].rank = 1


Extracted == probe.fn = "crawlNewsDetail" /\ probe.done

\* The answer of the last get of the call.
LastResponse == probe.in.responses[probe.out.gets]

\* C15: whatever the gets answer and whatever the parser finds or throws,
\* crawlNewsDetail returns a record, and its content, author and source are
\* not empty.
C15_DetailNeverEmpty ==
    Extracted =>
        /\ probe.out.gets \in 1..maxAttempts
        /\ probe.out.detail.content # ""
        /\ probe.out.detail.author # ""
        /\ probe.out.detail.source # ""

\* A page in which the parser finds nothing comes out with the placeholder and
\* the default names.
C15_Witness ==
    /\ Extracted
    /\ LastResponse = "full"
    /\ probe.in.pages[probe.out.gets] =
          [content |-> "", author |-> "", source |-> "", throws |-> FALSE]
    /\ probe.out.detail =
          [content |-> NoContentPlaceholder, author |-> DefaultName, source |-> DefaultName]

\* C18 as stated: a get of a detail page that throws before the attempt bound
\* is followed by another get.
C18_ThrownGetIsRetried ==
    Extracted =>
        (LastResponse = "fail" => probe.out.gets = maxAttempts)

\* C18 as the code has it: crawlNewsDetail makes another get only after a get
\* that answered a thin body, up to the attempt bound; a get that throws is the
\* last one, and the record of the catch is returned.
C18_RetryOnThinBodyOnly ==
    Extracted =>
        /\ probe.out.gets \in 1..maxAttempts
        /\ \A k \in 1..(probe.out.gets - 1) : probe.in.responses[k] = "thin"
        /\ probe.out.gets < maxAttempts => LastResponse # "thin"
        /\ LastResponse = "fail" => probe.out.detail = ErrorRecord

\* The first get throws: no second get, the record of the catch.
C18_Witness ==
    /\ Extracted
    /\ probe.in.responses[1] = "fail"
    /\ probe.out.gets = 1
    /\ probe.out.detail = ErrorRecord


\* A step of run r that is a listing fetch, and a step that brings it to one.
ListingFetched(r) == run[r].pc = "catFetch" /\ run'[r] # run[r]

ToListingFetch(r) == run'[r].pc = "catFetch" /\ run'[r] # run[r]

\* C17: in one run the listing fetches are made one after the other in the
\* order of the categories, and after every listing fetch, failed or empty
\* ones too, the run is in the delay before it can make the next one.
C17_DelayBetweenListingFetches ==
    [][\A r \in Runs :
          /\ ListingFetched(r) =>
                /\ run'[r].pc = "catDelay"
                /\ run'[r].catIdx = run[r].catIdx
          /\ ToListingFetch(r) =>
                \/ run[r].pc = "idle" /\ run'[r].catIdx = 1
                \/ run[r].pc = "catDelay" /\ run'[r].catIdx = run[r].catIdx + 1]_vars

\* A run in the delay after a failed fetch of a category that is not the last.
C17_Witness ==
    \E r \in Runs :
        /\ run[r].pc = "catDelay"
        /\ run[r].catIdx \in run[r].fetchFailed
        /\ run[r].catIdx < env.categories


\* C19: a run that has started ends: crawlNews returns or raises.
C19_RunTerminates ==
    \A r \in Runs : (run[r].pc # "idle") ~> Ended(r)

\* A run has returned after a detail task in which something failed and a sweep
\* that worked on a row.
C19_Witness ==
    \E r \in Runs :
        /\ run[r].pc = "done"
        /\ \E i \in DOMAIN Tasks(r) : Tasks(r)[i].failure # "none"
        /\ run[r].targets # <<>>


\* How many times event e is in the history of run r.
Occurrences(r, e) == Cardinality({i \in DOMAIN run[r].events : run[r].events[i] = e})

InCategoryLoop(r) == run[r].pc \in {"catFetch", "catDelay", "dedup"}

C21_QueryOnce ==
    \A r \in Runs :
        /\ Occurrences(r, "dedup") <= 1
        /\ InCategoryLoop(r) => ~Happened(r, "dedup") /\ ~Happened(r, "write")
        /\ (HasLog(r) /\ ~InCategoryLoop(r) /\ run[r].pc # "idle") =>
              Occurrences(r, "dedup") = 1
        /\ InOrder(run[r].events, CodeOrder)

C21_QueryStep ==
    \A r \in Runs :
        (run[r].pc = "dedup" /\ run'[r] # run[r]) =>
            /\ run[r].catIdx = env.categories + 1
            /\ run'[r].pc = "save" /\ run'[r].saveIdx = 1
            /\ news_main' = news_main
            /\ faults' \in {faults, faults + 1}
            /\ faults' = faults =>
                  \A i \in DOMAIN run[r].allArticles :
                      run[r].allArticles[i] \in Range(run'[r].newArticles)
                          <=> run[r].allArticles[i].url \notin ExistingUrlSet
            /\ Range(run'[r].newArticles) \subseteq Range(run[r].allArticles)

\* C21: a run makes its existence query once, after the step of the last
\* category and before its first main-record write, whatever the number of
\* categories; the query covers the items of all categories: an answered query
\* removes exactly the items whose url is stored, of whichever category.
C21_DedupOnceOverUnion == [](C21_QueryOnce) /\ [][C21_QueryStep]_vars

\* After the query of a run over two categories an item of the first category
\* has been removed.
C21_Witness ==
    \E r \in Runs :
        /\ run[r].pc = "save" /\ run[r].saveIdx = 1
        /\ Occurrences(r, "dedup") = 1
        /\ ~run[r].queryFailed
        /\ \E i, j \in DOMAIN run[r].allArticles :
              /\ run[r].allArticles[i].category = 1
              /\ run[r].allArticles[j].category = 2
              /\ run[r].allArticles[i] \notin Range(run[r].newArticles)


C22_TasksOfCreated ==
    \A r \in Runs :
        /\ Len(Tasks(r)) = run[r].itemCount
        /\ Len(Tasks(r)) = Cardinality(run[r].created)
        /\ \A i \in DOMAIN Tasks(r) :
              /\ Tasks(r)[i].news_se \in run[r].created
              /\ Tasks(r)[i].news_se \in DOMAIN news_main
              /\ news_main[Tasks(r)[i].news_se].url_lk = Tasks(r)[i].url
        /\ \A i, j \in DOMAIN Tasks(r) :
              i # j => Tasks(r)[i].news_se # Tasks(r)[j].news_se

\* A step of run r starts a task exactly when it stored a main record.
C22_TaskStep ==
    \A r \in Runs :
        run'[r] # run[r] =>
            /\ Len(run'[r].detailTasks) =
                  Len(run[r].detailTasks)
                      + (IF Len(news_main') > Len(news_main) THEN 1 ELSE 0)
            /\ Len(run'[r].detailTasks) > Len(run[r].detailTasks) =>
                  /\ run'[r].detailTasks[Len(run'[r].detailTasks)].news_se = Len(news_main')
                  /\ run[r].pc = "save"

\* C22: a detail task is started for an article only once its main record is
\* created by the run, one task per created record (as many tasks as itemCount),
\* and none for an item whose write was a duplicate or failed.
C22_OneTaskPerCreatedRecord == [](C22_TasksOfCreated) /\ [][C22_TaskStep]_vars

\* The write loop of a run is over: one record created and its task started,
\* one item was a duplicate.
C22_Witness ==
    \E r \in Runs :
        /\ WriteLoopOver(r)
        /\ run[r].dups > 0
        /\ run[r].itemCount = 1
        /\ Len(Tasks(r)) = 1


\* The page of the last get, as the parser reads it.
LastPage == probe.in.pages[probe.out.gets]

Get(k) == [op |-> "get", arg |-> k]

\* C23: a call of crawlNewsDetail makes at most 2 gets; it makes the second one
\* only when the first answered a body of at most 200 characters, and after
\* the delay of the first attempt; what it parses is the page of its last get.
C23_RetryOnThinBody ==
    Extracted =>
        /\ probe.out.gets <= 2
        /\ probe.out.gets = 1 =>
              /\ probe.in.responses[1] # "thin"
              /\ probe.out.trace \in {<<Get(1)>>, <<Get(1), [op |-> "parse", arg |-> 1]>>}
        /\ probe.out.gets = 2 =>
              /\ probe.in.responses[1] = "thin"
              /\ SubSeq(probe.out.trace, 1, 3) =
                    <<Get(1), [op |-> "delay", arg |-> 500], Get(2)>>
              /\ Len(probe.out.trace) = 3
                    \/ probe.out.trace[4] = [op |-> "parse", arg |-> 2]
        /\ LastResponse # "fail" =>
              /\ probe.out.trace[Len(probe.out.trace)] =
                    [op |-> "parse", arg |-> probe.out.gets]
              /\ probe.out.detail =
                    IF LastPage.throws THEN ErrorRecord ELSE DetailRecord(LastPage)

\* The first get answered a thin body with no text for the parser, the second a
\* page with text: the record holds the text of the second page.
C23_Witness ==
    /\ Extracted
    /\ probe.in.responses = <<"thin", "full">>
    /\ probe.in.pages[1].content = "" /\ ~probe.in.pages[2].throws
    /\ probe.in.pages[2].content = ArticleText
    /\ probe.out.gets = 2
    /\ probe.out.detail.content = ArticleText


\* The task a step of run r has started, if it has started one.
Started(r) == Len(run'[r].detailTasks) > Len(run[r].detailTasks)

NewTask(r) == run'[r].detailTasks[Len(run'[r].detailTasks)]

\* What task i of run r does in a step.
TaskStepped(r, i) ==
    /\ i \in DOMAIN run[r].detailTasks
    /\ run'[r].detailTasks[i] # run[r].detailTasks[i]

C24_TaskStep ==
    \A r \in Runs :
        /\ Started(r) =>
              IF cache[NewTask(r).url] # NoDetail
              THEN /\ NewTask(r).pc = "create"
                   /\ NewTask(r).attempt = 0
                   /\ NewTask(r).detail = cache[NewTask(r).url]
                   /\ cache' = cache
              ELSE /\ NewTask(r).pc = "fetch"
                   /\ NewTask(r).attempt = 1
        /\ \A i \in 1..NumUrls :
              TaskStepped(r, i) =>
                  LET t == run[r].detailTasks[i]
                      u == run'[r].detailTasks[i]
                  IN  /\ u.pc = "fetch" => t.pc = "fetch" /\ u.attempt = t.attempt + 1
                      /\ t.pc = "fetch" =>
                            /\ t.attempt \in 1..maxAttempts
                            /\ news_detail' = news_detail
                            /\ u.pc # "fetch" =>
                                  /\ u.pc = "create"
                                  /\ u.detail # NoDetail
                                  /\ cache'[t.url] = u.detail
                      /\ t.pc # "fetch" => cache' = cache
                      /\ news_detail' # news_detail =>
                            /\ t.pc = "create"
                            /\ news_detail'[Len(news_detail')] =
                                  [news_se |-> t.news_se, content_ct |-> t.detail.content]

\* C24: a detail task that finds an entry for its url in the cache makes no
\* get and calls the store with the cached record; a task that finds none
\* makes a get, and sets the cache to the record of crawlNewsDetail before it
\* calls the store with it.
C24_CacheHitAndMiss ==
    [][C24_TaskStep]_vars
    /\ [](\A r \in Runs : \A i \in DOMAIN Tasks(r) :
             Tasks(r)[i].pc = "create" =>
                 /\ Tasks(r)[i].detail # NoDetail
                 /\ Tasks(r)[i].detail = cache[Tasks(r)[i].url]
                    \/ Tasks(r)[i].attempt > 0)

\* A task has persisted the record of the catch that it found in the cache: no
\* get of its own failed.
C24_Witness ==
    \E r \in Runs : \E i \in DOMAIN Tasks(r) :
        /\ Tasks(r)[i].pc = "done"
        /\ Tasks(r)[i].failure = "none"
        /\ cache[Tasks(r)[i].url] = ErrorRecord
        /\ \E k \in DOMAIN news_detail :
              news_detail[k] = [news_se |-> Tasks(r)[i].news_se,
                                content_ct |-> CrawlErrorPlaceholder]


OnRow(r) == run[r].pc \in {"bfFetch", "bfCreate", "bfFind"}

InSweep(r) == run[r].pc = "bfQuery" \/ OnRow(r)

\* The article of position k of the targets of run r.
Target(r, k) == news_main[run[r].targets[k]]

C25_SweepRows ==
    \A r \in Runs :
        /\ OnRow(r) => Target(r, run[r].bfIdx).url_lk # NoUrl
        /\ \A c \in run[r].calls : news_main[c.news_se].url_lk # NoUrl
        /\ Happened(r, "sweep") =>
              /\ run[r].pc # "raised"
              /\ LogOf(r).updates <= 1

C25_SweepStep ==
    \A r \in Runs :
        (InSweep(r) /\ run'[r] # run[r]) =>
            /\ news_crawl_log' = news_crawl_log
            /\ InSweep(r)' \/ run'[r].pc = "done"
            /\ run'[r].pc = "done" => run'[r].result = Returned(run[r].itemCount)
            /\ OnRow(r) =>
                  /\ run'[r].targets = run[r].targets
                  /\ run'[r].bfIdx >= run[r].bfIdx
                  /\ \A k \in (run[r].bfIdx + 1)..Len(run[r].targets) :
                        k < run'[r].bfIdx => Target(r, k).url_lk = NoUrl
                  /\ run'[r].pc = "done" <=> run'[r].bfIdx > Len(run[r].targets)

\* C25: the sweep makes no get and no store write for a record without url; a
\* failed get or a failed detail write for a record never ends the sweep before
\* the last record with a url, never makes crawlNews raise and leaves the log
\* record of the run as it is.
C25_BackfillContainment == [](C25_SweepRows) /\ [][C25_SweepStep]_vars

\* The sweep has ended: the write of the detail of its first record threw, the
\* detail of its second record is stored, the run has returned and its log
\* record says success.
C25_Witness ==
    \E r \in Runs :
        /\ run[r].pc = "done"
        /\ Len(run[r].targets) = 2
        /\ Call(run[r].targets[1], "threw", NoRow, TRUE) \in run[r].calls
        /\ \E c \in run[r].calls :
              c.news_se = run[r].targets[2] /\ c.kind = "returned" /\ c.row # NoRow
        /\ run[r].result = Returned(run[r].itemCount)
        /\ LogOf(r).status_cd = "success"


C26_SweepBounded ==
    \A r \in Runs :
        /\ Len(run[r].targets) <= env.limit
        /\ \A i, j \in DOMAIN run[r].targets :
              i # j => run[r].targets[i] # run[r].targets[j]
        /\ Occurrences(r, "sweep") <= 1
        /\ (OnRow(r) \/ run[r].pc = "done") => Occurrences(r, "sweep") = 1
        /\ OnRow(r) =>
              /\ run[r].bfIdx \in DOMAIN run[r].targets
              /\ TasksSettled(r)
        /\ run[r].pc = "bfFetch" => run[r].bfAttempt \in 1..maxAttempts

\* The gets of the sweep are issued one after the other: the get for a record
\* is issued by the query or when the work on an earlier record has ended.
C26_SweepStep ==
    \A r \in Runs :
        (run'[r] # run[r] /\ run'[r].pc = "bfFetch") =>
            \/ run[r].pc = "bfQuery" /\ run'[r].bfAttempt = 1
            \/ /\ OnRow(r)
               /\ run'[r].targets = run[r].targets
               /\ \/ run'[r].bfIdx > run[r].bfIdx /\ run'[r].bfAttempt = 1
                  \/ /\ run[r].pc = "bfFetch"
                     /\ run'[r].bfIdx = run[r].bfIdx
                     /\ run'[r].bfAttempt = run[r].bfAttempt + 1

\* C26: a sweep works on at most as many articles as the configured limit, each
\* once and one after the other, and makes its query for the articles without
\* detail once.
C26_SweepWithinLimit == [](C26_SweepBounded) /\ [][C26_SweepStep]_vars

\* A sweep has ended that worked on as many articles as the limit while more
\* articles were without detail.
C26_Witness ==
    \E r \in Runs :
        /\ run[r].pc = "done"
        /\ Len(run[r].targets) = env.limit
        /\ Cardinality(run[r].missingAtSweep) > env.limit
        /\ \A k \in DOMAIN run[r].targets : Target(r, k).url_lk # NoUrl


\* C27: no step of a run modifies or removes a stored article: every record
\* that is stored stays as it is, and the only change a step makes to the
\* articles is one new record, with a url that was not stored.
C27_ArticlesOnlyGrow ==
    [][\A r \in Runs :
          run'[r] # run[r] =>
              /\ Len(news_main') \in {Len(news_main), Len(news_main) + 1}
              /\ \A i \in DOMAIN news_main : news_main'[i] = news_main[i]
              /\ Len(news_main') > Len(news_main) =>
                    /\ run[r].pc = "save"
                    /\ news_main'[Len(news_main')].url_lk \notin ExistingUrlSet]_vars

\* A run has returned that stored a record and met a duplicate, next to the
\* records of another writer.
C27_Witness ==
    \E r \in Runs :
        /\ run[r].pc = "done"
        /\ run[r].created # {}
        /\ run[r].dups > 0
        /\ Len(news_main) > Cardinality(run[r].created)


Stored(id) == DetailRows(id) # {}

C28_OneDetail ==
    /\ \A id \in DOMAIN news_main : Cardinality(DetailRows(id)) <= 1
    /\ \A i \in DOMAIN news_detail : news_detail[i].news_se \in DOMAIN news_main
    /\ \A r \in Runs :
          /\ \A i \in DOMAIN Tasks(r) :
                Tasks(r)[i].pc = "find" => Stored(Tasks(r)[i].news_se)
          /\ run[r].pc = "bfFind" => Stored(run[r].targets[run[r].bfIdx])

\* The attempt that finds the detail of its article stored writes nothing and
\* ends: its task settles, its sweep goes on, its run does not raise.
C28_LoserStep ==
    \A r \in Runs :
        /\ \A i \in 1..NumUrls :
              (TaskStepped(r, i) /\ run[r].detailTasks[i].pc \in {"create", "find"}) =>
                  LET t == run[r].detailTasks[i]
                      u == run'[r].detailTasks[i]
                  IN  /\ run'[r].pc # "raised"
                      /\ u.pc \in {"find", "done"}
                      /\ t.pc = "find" => u.pc = "done"
                      /\ Stored(t.news_se) => news_detail' = news_detail
                      /\ ~Stored(t.news_se) => u.pc = "done"
        /\ (run[r].pc \in {"bfCreate", "bfFind"} /\ run'[r] # run[r]) =>
              LET id == run[r].targets[run[r].bfIdx]
              IN  /\ run'[r].pc # "raised"
                  /\ run'[r].pc \in {"bfFind", "bfFetch", "done"}
                  /\ run[r].pc = "bfFind" => run'[r].pc # "bfFind"
                  /\ Stored(id) => news_detail' = news_detail
                  /\ ~Stored(id) => run'[r].pc # "bfFind"

\* C28: however detail tasks and sweeps, of one run or of overlapping runs,
\* interleave on the detail of one article, the article never has two detail
\* records, and the attempt that comes second ends without raising.
C28_DetailRace == [](C28_OneDetail) /\ [][C28_LoserStep]_vars

\* A task of one run and the sweep of the other have both finished their call
\* for the same article, which has one detail record.
C28_Witness ==
    \E r, q \in Runs :
        /\ r # q
        /\ run[q].pc = "done"
        /\ \E i \in DOMAIN Tasks(r) :
              /\ Tasks(r)[i].pc = "done"
              /\ \E c \in run[r].calls : c.news_se = Tasks(r)[i].news_se
              /\ \E c \in run[q].calls : c.news_se = Tasks(r)[i].news_se
              /\ Tasks(r)[i].news_se \in Range(run[q].targets)
              /\ Cardinality(DetailRows(Tasks(r)[i].news_se)) = 1


RECURSIVE SumItemCount(_, _)
SumItemCount(rn, S) ==
    IF S = {} THEN 0
    ELSE LET r == CHOOSE r \in S : TRUE
         IN  rn[r].itemCount + SumItemCount(rn, S \ {r})

\* The ids of the articles for which run r has started an inline detail task.
TaskIds(r) == {Tasks(r)[i].news_se : i \in DOMAIN Tasks(r)}

C29_NoDoubleStore ==
    /\ \A i, j \in DOMAIN news_main :
          news_main[i].url_lk = news_main[j].url_lk => i = j
    /\ \A r, q \in Runs :
          r # q => /\ run[r].created \cap run[q].created = {}
                   /\ TaskIds(r) \cap TaskIds(q) = {}
    /\ \A r \in Runs :
          /\ run[r].itemCount = Cardinality(run[r].created)
          /\ run[r].created \subseteq DOMAIN news_main
          /\ TaskIds(r) = run[r].created
          /\ Len(Tasks(r)) = Cardinality(TaskIds(r))
          /\ run[r].result.kind # "none" => run[r].result.itemCount = run[r].itemCount

\* Every record a step stores is counted by one run, once.
C29_CountStep ==
    /\ Len(news_main') - Len(news_main) = SumItemCount(run', Runs) - SumItemCount(run, Runs)
    /\ Len(news_main') - Len(news_main) \in {0, 1}

\* C29: when two runs overlap on one store and one crawler, no url is stored
\* as two articles, every article a run stores is counted by that run and by
\* no other (the itemCounts of the runs add up to the number of articles
\* stored), and no article has two inline detail tasks, in one run or in two.
C29_OverlapCounts == [](C29_NoDoubleStore) /\ [][C29_CountStep]_vars

\* Both runs have returned; one stored a url that was not stored when the other
\* asked the store, and the other met a duplicate when it wrote.
C29_Witness ==
    \E r, q \in Runs :
        /\ r # q
        /\ run[r].pc = "done" /\ run[q].pc = "done"
        /\ run[r].created # {}
        /\ run[q].dups > 0
        /\ \E id \in run[r].created : news_main[id].url_lk \notin run[q].storedAtQuery


\* The article ids run r has from the store: those saveMainNews returned to
\* it, and those the missing-detail query returned to its sweep.
IdsOf(r) == run[r].created \cup Range(run[r].targets)

C30_DetailsOfArticles ==
    /\ \A i \in DOMAIN news_detail : news_detail[i].news_se \in DOMAIN news_main
    /\ \A r \in Runs :
          /\ IdsOf(r) \subseteq DOMAIN news_main
          /\ Range(run[r].targets) \subseteq run[r].missingAtSweep
          /\ \A i \in DOMAIN Tasks(r) :
                /\ Tasks(r)[i].news_se \in run[r].created
                /\ news_main[Tasks(r)[i].news_se].url_lk = Tasks(r)[i].url
          /\ \A c \in run[r].calls : c.news_se \in IdsOf(r)

\* The detail a step of a run stores is of an article whose id the run has
\* from the store, and the run stores it from a task or from its sweep.
C30_WriteStep ==
    \A r \in Runs :
        (run'[r] # run[r] /\ news_detail' # news_detail) =>
            /\ Len(news_detail') = Len(news_detail) + 1
            /\ \A i \in DOMAIN news_detail : news_detail'[i] = news_detail[i]
            /\ LET id == news_detail'[Len(news_detail')].news_se
               IN  \/ /\ run[r].pc = "bfCreate"
                      /\ id = run[r].targets[run[r].bfIdx]
                   \/ \E i \in DOMAIN Tasks(r) :
                         /\ Tasks(r)[i].pc = "create"
                         /\ TaskStepped(r, i)
                         /\ id = Tasks(r)[i].news_se
                         /\ id \in run[r].created

\* C30: every detail record is the detail of a stored article, and a run only
\* calls saveNewsDetail with an id it has from the store: the id of a record
\* its saveMainNews created, or an id its missing-detail query returned.
C30_DetailRefersToArticle == [](C30_DetailsOfArticles) /\ [][C30_WriteStep]_vars

\* A run has returned that stored the detail of an article it created and the
\* detail of an article of its sweep that it did not create.
C30_Witness ==
    \E r \in Runs :
        /\ run[r].pc = "done"
        /\ \E c, d \in run[r].calls :
              /\ c.news_se \in run[r].created
              /\ d.news_se \in Range(run[r].targets) \ run[r].created
              /\ c.kind = "returned" /\ d.kind = "returned"
              /\ c.row # NoRow /\ d.row # NoRow

====
